---- MODULE Spec2Model ----
(***************************************************************************)
(* Model of ASLDetectorGUI (Main.py): the capture-detect-render loop that  *)
(* the Tk event loop drives through toggle_detection and update_frame,     *)
(* together with the camera handle it owns.                                *)
(*                                                                         *)
(* Confidences are integers in thousandths (600 is 0.60).  A VideoCapture  *)
(* object is an identifier 1, 2, ...; 0 is Python's None.  The set `open`  *)
(* holds the identifiers whose device handle is currently open, so         *)
(* cap.isOpened() is  cap \in open.                                        *)
(***************************************************************************)
EXTENDS Integers, Sequences, FiniteSets, TLC

\* ---- bounds -------------------------------------------------------------
\* VideoCapture objects constructed in one run
MaxOpens == 3
\* update_frame callbacks pending in the Tk timer queue
MaxPending == 2
\* boxes returned by one predict call
MaxDet == 2

\* ---- program constants --------------------------------------------------
DisplayCutoff == 600
DefaultThreshold == 250

None == 0
ClassIds == 0 .. 2
ConfValues == {550, 600, 910}
Thresholds == {0, 250, 600}
\* class 0 at every confidence, the other classes at the highest one
Box == {b \in [cls : ClassIds, conf : ConfValues] : b.cls = 0 \/ b.conf = 910}
BoxSeqs == UNION {[1 .. n -> Box] : n \in 0 .. MaxDet}

\* self.model.names: the label table; class id 2 has no entry
names == (0 :> "A") @@ (1 :> "B")

VARIABLES is_running, cap, open, nextId, releaseCalls, pending,
          results_text, video_image, button_text, slider, alive,
          lastToggle, ev

vars == <<is_running, cap, open, nextId, releaseCalls, pending,
          results_text, video_image, button_text, slider, alive,
          lastToggle, ev>>

\* what the handler that ran last did (observation only)
NoEv(op) ==
    [op |-> op, ticked |-> FALSE, wasRunning |-> FALSE, read |-> "none",
     exc |-> "none", scheduled |-> FALSE, rendered |-> FALSE,
     constructed |-> FALSE, deviceOk |-> FALSE, released |-> FALSE, heldBefore |-> FALSE,
     raw |-> <<>>]

World ==
    [is_running |-> is_running, cap |-> cap, open |-> open, nextId |-> nextId,
     releaseCalls |-> releaseCalls, pending |-> pending,
     results_text |-> results_text, video_image |-> video_image,
     button_text |-> button_text, slider |-> slider, alive |-> alive,
     lastToggle |-> lastToggle, ev |-> ev]

Apply(w) ==
    /\ is_running' = w.is_running
    /\ cap' = w.cap
    /\ open' = w.open
    /\ nextId' = w.nextId
    /\ releaseCalls' = w.releaseCalls
    /\ pending' = w.pending
    /\ results_text' = w.results_text
    /\ video_image' = w.video_image
    /\ button_text' = w.button_text
    /\ slider' = w.slider
    /\ alive' = w.alive
    /\ lastToggle' = w.lastToggle
    /\ ev' = w.ev

\* ---- camera --------------------------------------------------------------

\* cv2.VideoCapture(0): a new object; its device handle is open iff the
\* device could be opened
VideoCapture(w, avail) ==
    [w EXCEPT !.cap = w.nextId,
              !.nextId = @ + 1,
              !.open = IF avail THEN @ \cup {w.nextId} ELSE @,
              !.ev.constructed = TRUE,
              !.ev.deviceOk = avail]

initialize_camera_unguarded(w, avail) ==
    LET w1 == VideoCapture([w EXCEPT !.ev.heldBefore = (w.cap # None)], avail)
    IN  IF w1.cap \notin w1.open THEN [w1 EXCEPT !.ev.exc = "camera"] ELSE w1

initialize_camera(w, avail) ==
    LET w0 == [w EXCEPT !.ev.heldBefore = (w.cap # None)]
    IN  IF w0.cap = None
        THEN LET w1 == VideoCapture(w0, avail)
             IN  IF w1.cap \notin w1.open
                 THEN [w1 EXCEPT !.ev.exc = "camera"]
                 ELSE w1
        ELSE w0

\* cap.release() on None raises AttributeError
release_camera_unguarded(w) ==
    IF w.cap # None
    THEN [w EXCEPT !.open = @ \ {w.cap},
                   !.releaseCalls = @ + 1,
                   !.cap = None,
                   !.ev.released = TRUE]
    ELSE [w EXCEPT !.ev.exc = "attribute"]

\* the handle is dropped without cap.release()
release_camera_leaking(w) ==
    IF w.cap # None THEN [w EXCEPT !.cap = None] ELSE w

release_camera(w) ==
    IF w.cap # None
    THEN [w EXCEPT !.open = @ \ {w.cap},
                   !.releaseCalls = @ + 1,
                   !.cap = None,
                   !.ev.released = TRUE]
    ELSE w

\* ---- one frame -----------------------------------------------------------

\* f"{confidence:.2f}": hundredths, rounded to nearest (no value of ConfValues is a tie)
Fmt2(confidence) == (confidence + 5) \div 10

confidence_gate_strict(confidence) == confidence > DisplayCutoff

confidence_gate(confidence) == confidence >= DisplayCutoff

\* the loop over result.boxes: letters are the listing lines, drawn the
\* rectangles and labels put on the frame (at = position of the box)
RECURSIVE process_boxes(_, _, _)
process_boxes(boxes, i, acc) ==
    IF i > Len(boxes) THEN acc
    ELSE LET box == boxes[i]
         IN  IF confidence_gate(box.conf)
             THEN IF box.cls \notin DOMAIN names
                  THEN [acc EXCEPT !.exc = "label"]
                  ELSE process_boxes(boxes, i + 1,
                         [acc EXCEPT
                            !.letters = Append(@, [label |-> names[box.cls],
                                                   conf2 |-> Fmt2(box.conf)]),
                            !.drawn = Append(@, [label |-> names[box.cls],
                                                 at |-> i])])
             ELSE process_boxes(boxes, i + 1, acc)

\* window.after(10, self.update_frame)
schedule_next(w) ==
    [w EXCEPT !.pending = @ + 1, !.ev.scheduled = TRUE]

\* the body of `if ret:`; boxes is what predict returns, predictFails
\* whether predict raises instead
detect_and_render(w, boxes, predictFails) ==
    IF predictFails THEN [w EXCEPT !.ev.exc = "detection"]
    ELSE LET acc == process_boxes(boxes, 1,
                      [letters |-> <<>>, drawn |-> <<>>, exc |-> "none"])
         IN  IF acc.exc # "none"
             THEN [w EXCEPT !.ev.exc = acc.exc, !.ev.raw = boxes]
             ELSE [w EXCEPT !.results_text = acc.letters,
                            !.video_image = [shown |-> TRUE,
                                             boxes |-> acc.drawn],
                            !.ev.rendered = TRUE,
                            !.ev.raw = boxes]

\* the next update is scheduled whether or not the session is running
update_frame_always_schedules(w, readOk, boxes, predictFails) ==
    LET w0 == [w EXCEPT !.ev.ticked = TRUE, !.ev.wasRunning = w.is_running]
    IN  IF w0.is_running
        THEN IF w0.cap = None
             THEN [w0 EXCEPT !.ev.exc = "attribute"]
             ELSE LET ret == (w0.cap \in w0.open) /\ readOk
                      w1 == [w0 EXCEPT !.ev.read = IF ret THEN "ok" ELSE "fail"]
                      w2 == IF ret THEN detect_and_render(w1, boxes, predictFails)
                                   ELSE w1
                  IN  IF w2.ev.exc # "none" THEN w2 ELSE schedule_next(w2)
        ELSE schedule_next(w0)

\* the next update is scheduled inside `if ret:` only
update_frame_stops_on_read_failure(w, readOk, boxes, predictFails) ==
    LET w0 == [w EXCEPT !.ev.ticked = TRUE, !.ev.wasRunning = w.is_running]
    IN  IF w0.is_running
        THEN IF w0.cap = None
             THEN [w0 EXCEPT !.ev.exc = "attribute"]
             ELSE LET ret == (w0.cap \in w0.open) /\ readOk
                      w1 == [w0 EXCEPT !.ev.read = IF ret THEN "ok" ELSE "fail"]
                      w2 == IF ret THEN detect_and_render(w1, boxes, predictFails)
                                   ELSE w1
                  IN  IF w2.ev.exc # "none" THEN w2
                      ELSE IF ret THEN schedule_next(w2) ELSE w2
        ELSE w0

\* cap.read() on an object whose device is not open returns (False, None);
\* on None it raises AttributeError
update_frame(w, readOk, boxes, predictFails) ==
    LET w0 == [w EXCEPT !.ev.ticked = TRUE, !.ev.wasRunning = w.is_running]
    IN  IF w0.is_running
        THEN IF w0.cap = None
             THEN [w0 EXCEPT !.ev.exc = "attribute"]
             ELSE LET ret == (w0.cap \in w0.open) /\ readOk
                      w1 == [w0 EXCEPT !.ev.read = IF ret THEN "ok" ELSE "fail"]
                      w2 == IF ret THEN detect_and_render(w1, boxes, predictFails)
                                   ELSE w1
                  IN  IF w2.ev.exc # "none" THEN w2 ELSE schedule_next(w2)
        ELSE w0

\* ---- the toggle ----------------------------------------------------------

\* the running flag is left set when detection is stopped
stop_detection_keeps_running(w) ==
    release_camera([w EXCEPT !.button_text = "Start Detection",
                             !.lastToggle = "stop"])

stop_detection(w) ==
    release_camera([w EXCEPT !.is_running = FALSE,
                             !.button_text = "Start Detection",
                             !.lastToggle = "stop"])

start_detection(w, avail, readOk, boxes, predictFails) ==
    LET w1 == initialize_camera([w EXCEPT !.is_running = TRUE,
                                          !.button_text = "Stop Detection"],
                                avail)
    IN  IF w1.ev.exc # "none"
        THEN [w1 EXCEPT !.lastToggle = "start_failed"]
        ELSE update_frame([w1 EXCEPT !.lastToggle = "start_ok"],
                          readOk, boxes, predictFails)

toggle_detection(w, avail, readOk, boxes, predictFails) ==
    IF w.is_running
    THEN stop_detection([w EXCEPT !.ev = NoEv("stop")])
    ELSE start_detection([w EXCEPT !.ev = NoEv("start")],
                         avail, readOk, boxes, predictFails)

\* ---- state machine -------------------------------------------------------

Init ==
    /\ is_running = FALSE
    /\ cap = None
    /\ open = {}
    /\ nextId = 1
    /\ releaseCalls = 0
    /\ pending = 0
    /\ results_text = <<>>
    /\ video_image = [shown |-> FALSE, boxes |-> <<>>]
    /\ button_text = "Start Detection"
    /\ slider = DefaultThreshold
    /\ alive = TRUE
    /\ lastToggle = "none"
    /\ ev = NoEv("init")

\* what predict may return at threshold t: boxes at or above t only
Returned(t) == {b \in BoxSeqs : \A i \in 1 .. Len(b) : b[i].conf >= t}

\* what one frame can bring: the read fails, predict raises, or predict
\* returns one of the given box sequences
FrameInputs(returned) ==
    {[readOk |-> FALSE, predictFails |-> FALSE, boxes |-> <<>>],
     [readOk |-> TRUE, predictFails |-> TRUE, boxes |-> <<>>]}
    \cup {[readOk |-> TRUE, predictFails |-> FALSE, boxes |-> b] :
             b \in returned}

\* what a start can bring: the device cannot be opened, or it can and the
\* first frame follows
StartInputs(returned) ==
    {[avail |-> FALSE, readOk |-> FALSE, predictFails |-> FALSE, boxes |-> <<>>]}
    \cup {[avail |-> TRUE, readOk |-> f.readOk, predictFails |-> f.predictFails,
           boxes |-> f.boxes] : f \in FrameInputs(returned)}

\* the user presses the button while detection runs
ToggleStop ==
    /\ alive
    /\ is_running
    /\ Apply(toggle_detection(World, FALSE, FALSE, <<>>, FALSE))

\* the user presses the button while detection does not run
StartPressed(returned) ==
    /\ alive
    /\ ~is_running
    /\ nextId <= MaxOpens
    /\ pending < MaxPending
    /\ \E in \in StartInputs(returned) :
         Apply(toggle_detection(World, in.avail, in.readOk, in.boxes,
                                in.predictFails))

ToggleStart == StartPressed(Returned(slider))

\* a pending timer fires and Tk calls update_frame
TimerFired(returned) ==
    /\ alive
    /\ pending > 0
    /\ \E in \in FrameInputs(returned) :
         Apply(update_frame([World EXCEPT !.pending = @ - 1,
                                          !.ev = NoEv("tick")],
                            in.readOk, in.boxes, in.predictFails))

TimerFires == TimerFired(Returned(slider))

\* the user moves the confidence slider
SetSlider ==
    /\ alive
    /\ \E t \in Thresholds \ {slider} :
         Apply([World EXCEPT !.slider = t, !.ev = NoEv("slider")])

\* the window is closed: mainloop returns, the pending timers go with the
\* interpreter, and __del__ releases the camera
Close ==
    /\ alive
    /\ Apply(release_camera([World EXCEPT !.alive = FALSE,
                                          !.pending = 0,
                                          !.ev = NoEv("del")]))

Next == ToggleStop \/ ToggleStart \/ TimerFires \/ SetSlider \/ Close

Spec == Init /\ [][Next]_vars

\* The same machine with frames of at most one box, and the Tk event loop's
\* guarantee that a pending timer is eventually fired.
ReturnedShort(t) == {b \in Returned(t) : Len(b) <= 1}

ToggleStartShort == StartPressed(ReturnedShort(slider))

TimerFiresShort == TimerFired(ReturnedShort(slider))

NextShort ==
    ToggleStop \/ ToggleStartShort \/ TimerFiresShort \/ SetSlider \/ Close

FairSpec == Init /\ [][NextShort]_vars /\ WF_vars(TimerFiresShort)

\* the camera methods called directly on the object, as a unit test does
CallInitializeCamera ==
    /\ alive
    /\ cap # None \/ nextId <= MaxOpens
    /\ \E avail \in BOOLEAN :
         Apply(initialize_camera([World EXCEPT !.ev = NoEv("initialize_camera")],
                                 avail))

CallReleaseCamera ==
    /\ alive
    /\ Apply(release_camera([World EXCEPT !.ev = NoEv("release_camera")]))

NextApi == Next \/ CallInitializeCamera \/ CallReleaseCamera

SpecApi == Init /\ [][NextApi]_vars

\* ---- properties -----------------------------------------------------------

\* C1: at most one update_frame callback is pending in the timer queue at
\* any time, whatever the order of toggles and timer firings.
C1_SingleTickChain == pending <= 1

\* C2: a tick in which predict or the label lookup raises leaves the session
\* running and is still followed by a scheduled next tick.
C2_LoopSurvivesDetectionFailure ==
    (ev.ticked /\ ev.exc \in {"detection", "label"})
        => (is_running /\ ev.scheduled /\ pending >= 1)

\* C3: when the last toggle was a start that failed to open the camera, the
\* next toggle is a start that constructs a capture again.
C3_NextToggleRetriesStart ==
    [][(lastToggle = "start_failed" /\ ev'.op \in {"start", "stop"})
          => (ev'.op = "start" /\ ev'.constructed)]_vars

\* C4: a tick of a running session whose camera read fails raises nothing,
\* leaves running set, leaves the listing and the displayed image as they
\* were, and schedules the next tick.
C4_ReadFailureKeepsLoop ==
    [][(ev'.ticked /\ ev'.wasRunning /\ ev'.read = "fail")
          => /\ is_running'
             /\ ev'.exc = "none"
             /\ ~ev'.rendered
             /\ results_text' = results_text
             /\ video_image' = video_image
             /\ ev'.scheduled
             /\ pending' >= 1]_vars

C4_Witness ==
    /\ ev.op = "tick"
    /\ ev.wasRunning
    /\ ev.read = "fail"
    /\ results_text # <<>>
    /\ pending >= 1

\* C5: a tick that fires while running is false reads no frame, changes
\* neither the listing nor the image and schedules nothing; and from any
\* state in which running is false, unless a start follows, the timer queue
\* becomes empty.
C5_StopIsCooperative ==
    /\ [][(ev'.ticked /\ ~ev'.wasRunning)
             => /\ ev'.read = "none"
                /\ ~ev'.rendered
                /\ ~ev'.scheduled
                /\ results_text' = results_text
                /\ video_image' = video_image
                /\ pending' = pending - 1]_vars
    /\ ((~is_running) ~> (is_running \/ pending = 0))

C5_Witness ==
    /\ ev.op = "tick"
    /\ ~ev.wasRunning
    /\ lastToggle = "stop"
    /\ pending = 0

Kept(raw) == SelectSeq(raw, LAMBDA b : b.conf >= 600)

\* C6: after a tick that read a frame and whose detection returned, the
\* listing is exactly one line per returned box of confidence 0.60 or more,
\* in the order returned, the boxes drawn on the displayed image are the same
\* ones, and in every state no listed line and no drawn box comes from a
\* confidence below 0.60, whatever the slider says.
C6_ListingIsDisplayFilter ==
    /\ (ev.ticked /\ ev.read = "ok" /\ ev.exc = "none")
          => LET kept == Kept(ev.raw)
             IN  /\ Len(results_text) = Len(kept)
                 /\ \A i \in 1 .. Len(kept) :
                       /\ results_text[i].label = names[kept[i].cls]
                       /\ results_text[i].conf2 = Fmt2(kept[i].conf)
                 /\ Len(video_image.boxes) = Len(kept)
                 /\ \A i \in 1 .. Len(kept) :
                       /\ video_image.boxes[i].label = names[kept[i].cls]
                       /\ ev.raw[video_image.boxes[i].at] = kept[i]
    /\ \A i \in 1 .. Len(results_text) : results_text[i].conf2 >= 60

C6_Witness ==
    /\ ev.op = "tick"
    /\ ev.read = "ok"
    /\ ev.exc = "none"
    /\ slider = 0
    /\ Len(ev.raw) = 2
    /\ ev.raw[1].conf = 910
    /\ ev.raw[2].conf = 550
    /\ Len(results_text) = 1

\* C7: at most one device handle is open and it is the one the session
\* holds; initialize_camera called while a capture is held constructs no
\* capture and leaves the held one and the open handles as they were.
C7_SingleCameraHandle ==
    /\ [](Cardinality(open) <= 1 /\ open \subseteq {cap})
    /\ [][(ev'.op \in {"initialize_camera", "start"} /\ cap # None)
             => /\ cap' = cap
                /\ open' = open
                /\ nextId' = nextId
                /\ ~ev'.constructed]_vars

C7_Witness ==
    /\ ev.op = "initialize_camera"
    /\ ev.heldBefore
    /\ ~ev.constructed
    /\ open = {cap}

\* C8: after a stop no capture is held and no device handle is open; the
\* start that follows a stop constructs a new capture, which is open and
\* brings the first tick whenever the device can be opened, and no handle
\* other than the new one is open.
C8_StopThenStartReacquires ==
    /\ [](ev.op = "stop" => (cap = None /\ open = {} /\ ~is_running))
    /\ [][(lastToggle = "stop" /\ ev'.op = "start")
             => /\ ev'.constructed
                /\ cap' = nextId
                /\ open' \subseteq {cap'}
                /\ ev'.deviceOk
                     => (cap' \in open' /\ ev'.exc # "camera" /\ ev'.ticked)]_vars

C8_Witness ==
    /\ ev.op = "start"
    /\ releaseCalls >= 1
    /\ ev.constructed
    /\ cap >= 2
    /\ open = {cap}
    /\ lastToggle = "start_ok"

\* C9: release_camera, called directly or by __del__, on a stopped session
\* that holds no capture changes nothing: running stays false, no capture is
\* held, release is not called on the device again and nothing is raised.
C9_ReleaseWhenReleasedIsNoop ==
    [][(ev'.op \in {"release_camera", "del"} /\ ~is_running /\ cap = None)
          => /\ ~is_running'
             /\ cap' = None
             /\ open' = open
             /\ releaseCalls' = releaseCalls
             /\ ~ev'.released
             /\ ev'.exc = "none"]_vars

C9_Witness ==
    /\ ev.op \in {"release_camera", "del"}
    /\ ~ev.released
    /\ ev.exc = "none"
    /\ releaseCalls >= 1
    /\ ~is_running
    /\ cap = None

\* C10: a tick that finds running set finds a capture held: it never raises
\* for want of one, also when it was pending across a stop or across a stop
\* followed by a start.
C10_TickReadsHeldCamera ==
    (ev.ticked /\ ev.wasRunning)
        => (cap # None /\ ev.exc # "attribute" /\ ev.read # "none")

C10_Witness ==
    /\ ev.op = "tick"
    /\ ev.wasRunning
    /\ ev.read = "ok"
    /\ releaseCalls >= 1
    /\ pending = 2

====
